---- MODULE Spec2Model ----
(***************************************************************************)
(* The e-commerce spider of zyte-spider-templates: the callbacks           *)
(* start_requests, parse_navigation and parse_product of EcommerceSpider,  *)
(* and the request builders they call, as a state machine driven by the    *)
(* responses that the (external) Scrapy engine delivers.                   *)
(*                                                                         *)
(* Representation.                                                         *)
(*  - A Python Optional is None (the empty tuple) or Some(v) (a 1-tuple).  *)
(*  - A str is a sequence of one-character strings, so that `in`,          *)
(*    str.replace and str.strip are computed character by character.       *)
(*  - A probability is a fixed-point number: the integer p stands for      *)
(*    p / PROB_DEN, so 0.1 is 1000, 0.0999 is 999 and 1.0 is 10000.        *)
(*  - A dict of page params is a set of <<key, value>> pairs.              *)
(*  - URLs are copied from a candidate to its request and read by no       *)
(*    decision of the spider; requests are modelled without them.          *)
(***************************************************************************)
EXTENDS Integers, Sequences, FiniteSets, TLC

VARIABLES
    crawl_strategy,     \* self.args.crawl_strategy, fixed for the crawl
    engine,             \* "opening" | "idle" | "response" (a response is
                        \* delivered) | "output" (the callback has run)
    frontier,           \* the scheduler: the kinds of request awaiting a fetch
    callback,           \* the callback the response is for, or that ran
    response,           \* Some(response.meta) or None
    injected,           \* Some(the item extracted from the response, as it
                        \* is injected into the callback) or None
    navigation,         \* Some(the ProductNavigation object, which the
                        \* callback may change) or None
    emitted,            \* the requests it yielded, in order
    yielded,            \* the items it yielded, in order
    stats,              \* crawler.stats: drop_item/product/low_probability
    item_scraped_count, \* the items the engine collected
    nav_responses,      \* navigation responses handled so far
    product_responses,  \* product responses handled so far
    urls_value,         \* the value given for the urls parameter
    urls_outcome,       \* Some(what validate_url_list did with it) or None
    generators,         \* the parse_product generators of the product
                        \* responses delivered side by side, each with its
                        \* product and its position
    subcategory_link,   \* Some(a subcategory link that
                        \* get_subcategory_request is called on) or None
    call_page_params,   \* the page_params argument of these calls
    calls               \* the calls made, in order: the link as it was
                        \* given to the call, and the request returned

crawl_vars == <<crawl_strategy, engine, frontier, callback, response,
                injected, navigation, emitted, yielded, stats,
                item_scraped_count, nav_responses, product_responses>>
\* the state that the crawl, handling one response at a time, leaves alone
urls_vars == <<urls_value, urls_outcome>>
call_vars == <<subcategory_link, call_page_params, calls>>
other_vars == <<urls_vars, generators, call_vars>>

vars == <<crawl_vars, other_vars>>

(***************************************************************************)
(* Bounds of the model.                                                    *)
(***************************************************************************)
\* product links of a navigation result of the crawl
MaxProducts == 2
\* subcategory links of a navigation result of the crawl
MaxSubCategories == 2
\* responses handled in a crawl: the budget of requests
MaxResponses == 2
\* parts a label of the single calls is made of
MaxLabelParts == 3
\* lines of a value given for the urls parameter
MaxUrlLines == 3
\* product responses delivered side by side
MaxConcurrent == 3
\* calls of get_subcategory_request on one subcategory link
MaxCalls == 3

(***************************************************************************)
(* Python values.                                                          *)
(***************************************************************************)
None == <<>>
Some(v) == <<v>>
Value(o) == o[1]

PROB_DEN == 100 * 100

\* int(100 * probability), for a probability >= 0 (int truncates toward zero)
IntOf100Times(p) == (100 * p) \div PROB_DEN

EmptyStr == <<>>
Whitespace == {" ", "\t", "\n"}

\* sub in s
Contains(s, sub) ==
    \E i \in 1..(Len(s) - Len(sub) + 1) : SubSeq(s, i, i + Len(sub) - 1) = sub

\* s.replace(old, ""): the occurrences of old, found left to right without
\* overlap, are deleted in one pass
RECURSIVE Replace(_, _)
Replace(s, old) ==
    IF Len(s) < Len(old) THEN s
    ELSE IF SubSeq(s, 1, Len(old)) = old
         THEN Replace(SubSeq(s, Len(old) + 1, Len(s)), old)
         ELSE <<Head(s)>> \o Replace(Tail(s), old)

RECURSIVE LStrip(_)
LStrip(s) ==
    IF s # <<>> /\ Head(s) \in Whitespace THEN LStrip(Tail(s)) ELSE s

RECURSIVE RStrip(_)
RStrip(s) ==
    IF s # <<>> /\ s[Len(s)] \in Whitespace
    THEN RStrip(SubSeq(s, 1, Len(s) - 1)) ELSE s

\* s.strip()
Strip(s) == RStrip(LStrip(s))

(***************************************************************************)
(* The spider's constants.                                                 *)
(***************************************************************************)
Full == "full"
Navigation == "navigation"
PaginationOnly == "pagination_only"
EcommerceCrawlStrategy == {Full, Navigation, PaginationOnly}

\* BaseSpider._NEXT_PAGE_PRIORITY (spiders/base.py)
_NEXT_PAGE_PRIORITY == 100

HEURISTICS == <<"[", "h", "e", "u", "r", "i", "s", "t", "i", "c", "s", "]">>

\* the threshold 0.1 of parse_product
LowProbability == PROB_DEN \div 10

\* spider.allowed_domains[0], the domain of the start URL
AllowedDomain == "example.com"

EmptyParams == {}
FullDomainParams == {<<"full_domain", AllowedDomain>>}

(***************************************************************************)
(* ProbabilityRequest (zyte_common_items): a link candidate.               *)
(***************************************************************************)
Candidate(name, metadata) == [name |-> name, metadata |-> metadata]
Metadata(probability) == Some([probability |-> probability])

\* ProbabilityRequest.get_probability / Product.get_probability
get_probability(request) ==
    IF request.metadata = None THEN None
    ELSE Value(request.metadata).probability

\* Request.to_scrapy(callback=..., priority=..., meta=...)
to_scrapy(request, cb, priority, meta) ==
    [callback |-> cb, priority |-> priority, meta |-> meta]

(***************************************************************************)
(* EcommerceSpider: the request builders.                                  *)
(***************************************************************************)
\* a variant that rounds 100 * probability to the nearest integer
get_parse_navigation_request_priority_rounded(request) ==
    IF request.metadata = None \/ Value(request.metadata).probability = None
    THEN 0
    ELSE (100 * Value(Value(request.metadata).probability) + PROB_DEN \div 2)
             \div PROB_DEN

get_parse_navigation_request_priority(request) ==
    IF request.metadata = None \/ Value(request.metadata).probability = None
    THEN 0
    ELSE IntOf100Times(Value(Value(request.metadata).probability))

\* a variant that lifts the offsite restriction for navigation requests too
get_parse_navigation_request_offsite(request, cb, page_params, priority, page_type) ==
    to_scrapy(
        request,
        IF cb = None THEN "parse_navigation" ELSE Value(cb),
        IF priority # None /\ Value(priority) # 0
        THEN Value(priority)
        ELSE get_parse_navigation_request_priority(request),
        [page_params |->
            IF page_params # None /\ Value(page_params) # EmptyParams
            THEN Value(page_params) ELSE EmptyParams,
         crawling_logs |->
            [name |-> IF request.name = None THEN EmptyStr
                      ELSE Value(request.name),
             probability |-> get_probability(request),
             page_type |-> page_type],
         allow_offsite |-> TRUE])

get_parse_navigation_request(request, cb, page_params, priority, page_type) ==
    to_scrapy(
        request,
        IF cb = None THEN "parse_navigation" ELSE Value(cb),
        IF priority # None /\ Value(priority) # 0
        THEN Value(priority)
        ELSE get_parse_navigation_request_priority(request),
        [page_params |->
            IF page_params # None /\ Value(page_params) # EmptyParams
            THEN Value(page_params) ELSE EmptyParams,
         crawling_logs |->
            [name |-> IF request.name = None THEN EmptyStr
                      ELSE Value(request.name),
             probability |-> get_probability(request),
             page_type |-> page_type]])

\* request.name or ""
request_name(request) ==
    IF request.name = None THEN EmptyStr ELSE Value(request.name)

\* the candidate as get_subcategory_request leaves it: the marker is
\* stripped from the name of the candidate object itself
\* a variant that deletes the marker and leaves the whitespace around it
subcategory_after_unstripped(request) ==
    IF ~Contains(request_name(request), HEURISTICS) THEN request
    ELSE [request EXCEPT
             !.name = Some(Replace(request_name(request), HEURISTICS))]

subcategory_after(request) ==
    IF ~Contains(request_name(request), HEURISTICS) THEN request
    ELSE [request EXCEPT
             !.name = Some(Strip(Replace(request_name(request), HEURISTICS)))]

\* a variant that hands the page params on for every subcategory link
get_subcategory_request_keeps_params(request, cb, page_params, priority) ==
    IF ~Contains(request_name(request), HEURISTICS)
    THEN get_parse_navigation_request(
             request, cb, page_params, priority, "subCategories")
    ELSE get_parse_navigation_request(
             subcategory_after(request), cb, page_params, priority,
             "productNavigation-heuristics")

get_subcategory_request(request, cb, page_params, priority) ==
    IF ~Contains(request_name(request), HEURISTICS)
    THEN get_parse_navigation_request(
             request, cb, None, priority, "subCategories")
    ELSE get_parse_navigation_request(
             subcategory_after(request), cb, page_params, priority,
             "productNavigation-heuristics")

\* a variant that leaves the priority to the probability of the link
get_nextpage_request_by_probability(request, cb, page_params) ==
    get_parse_navigation_request(request, cb, page_params, None, "nextPage")

get_nextpage_request(request, cb, page_params) ==
    get_parse_navigation_request(
        request, cb, page_params, Some(_NEXT_PAGE_PRIORITY), "nextPage")

\* a variant that rounds 100 * probability to the nearest integer
get_parse_product_request_priority_rounded(request) ==
    LET probability == IF get_probability(request) = None THEN 0
                       ELSE Value(get_probability(request))
    IN  (100 * probability + PROB_DEN \div 2) \div PROB_DEN
            + _NEXT_PAGE_PRIORITY

\* a variant without the next-page bias
get_parse_product_request_priority_unbiased(request) ==
    LET probability == IF get_probability(request) = None THEN 0
                       ELSE Value(get_probability(request))
    IN  IntOf100Times(probability)

get_parse_product_request_priority(request) ==
    LET probability == IF get_probability(request) = None THEN 0
                       ELSE Value(get_probability(request))
    IN  IntOf100Times(probability) + _NEXT_PAGE_PRIORITY

get_parse_product_request(request, cb) ==
    LET scrapy_request ==
            to_scrapy(
                request,
                IF cb = None THEN "parse_product" ELSE Value(cb),
                get_parse_product_request_priority(request),
                [crawling_logs |->
                    [name |-> request.name,
                     probability |-> get_probability(request),
                     page_type |-> "product"]])
    IN  [scrapy_request EXCEPT
            !.meta = [crawling_logs |-> scrapy_request.meta.crawling_logs,
                      allow_offsite |-> TRUE]]

(***************************************************************************)
(* EcommerceSpider: the callbacks, as functions of their inputs.           *)
(***************************************************************************)
\* response.meta.get("page_params")
meta_page_params(meta) ==
    IF "page_params" \in DOMAIN meta THEN Some(meta.page_params) ELSE None

start_requests_page_params(strategy) ==
    IF strategy = Full THEN FullDomainParams ELSE EmptyParams

\* the requests start_requests yields: one per start URL, and
\* EcommerceSpider has the one start URL of its url argument
start_requests_output(strategy) ==
    << [callback |-> "parse_navigation",
        priority |-> 0,
        meta |-> [page_params |-> start_requests_page_params(strategy),
                  crawling_logs |-> [page_type |-> "productNavigation"]]] >>

\* navigation.items or []
ProductsOf(nav) == IF nav.items = None THEN <<>> ELSE Value(nav.items)

\* navigation.subCategories or []
SubCategoriesOf(nav) ==
    IF nav.subCategories = None THEN <<>> ELSE Value(nav.subCategories)

\* a variant that applies the probability threshold to the product links
parse_navigation_products_gated(nav) ==
    LET kept == SelectSeq(ProductsOf(nav),
                    LAMBDA c : get_probability(c) = None
                                 \/ Value(get_probability(c)) >= LowProbability)
    IN  [i \in 1..Len(kept) |-> get_parse_product_request(kept[i], None)]

parse_navigation_products(nav) ==
    [i \in 1..Len(ProductsOf(nav)) |->
        get_parse_product_request(ProductsOf(nav)[i], None)]

\* a variant that follows the next page of a page without products
parse_navigation_nextpage_unguarded(nav) ==
    IF nav.nextPage # None
    THEN <<get_nextpage_request(Value(nav.nextPage), None, None)>>
    ELSE <<>>

parse_navigation_nextpage(nav) ==
    IF nav.nextPage # None /\ ProductsOf(nav) # <<>>
    THEN <<get_nextpage_request(Value(nav.nextPage), None, None)>>
    ELSE <<>>

\* a variant that follows subcategory links under every strategy
parse_navigation_subcategories_ungated(strategy, meta, nav) ==
    [i \in 1..Len(SubCategoriesOf(nav)) |->
        get_subcategory_request(
            SubCategoriesOf(nav)[i], None, meta_page_params(meta), None)]

parse_navigation_subcategories(strategy, meta, nav) ==
    IF strategy # PaginationOnly
    THEN [i \in 1..Len(SubCategoriesOf(nav)) |->
             get_subcategory_request(
                 SubCategoriesOf(nav)[i], None, meta_page_params(meta), None)]
    ELSE <<>>

\* the requests parse_navigation yields, in order
parse_navigation_output(strategy, meta, nav) ==
    parse_navigation_products(nav)
        \o parse_navigation_nextpage(nav)
        \o parse_navigation_subcategories(strategy, meta, nav)

\* the ProductNavigation object once parse_navigation has run
parse_navigation_after(strategy, nav) ==
    IF strategy # PaginationOnly /\ nav.subCategories # None
    THEN [nav EXCEPT !.subCategories =
             Some([i \in 1..Len(SubCategoriesOf(nav)) |->
                      subcategory_after(SubCategoriesOf(nav)[i])])]
    ELSE nav

\* Product (zyte_common_items): an extracted product, of which the spider
\* reads the probability
Product(probability) == [metadata |-> Metadata(probability)]

\* a variant whose threshold is exclusive
parse_product_output_exclusive(product) ==
    IF get_probability(product) = None
         \/ Value(get_probability(product)) > LowProbability
    THEN <<product>>
    ELSE <<>>

\* the items parse_product yields
parse_product_output(product) ==
    IF get_probability(product) = None
         \/ Value(get_probability(product)) >= LowProbability
    THEN <<product>>
    ELSE <<>>

\* a variant that sets the counter where the code increments it
parse_product_stats_set(value, product) ==
    IF get_probability(product) = None
         \/ Value(get_probability(product)) >= LowProbability
    THEN value
    ELSE 1

\* crawler.stats once parse_product has run
parse_product_stats(value, product) ==
    IF get_probability(product) = None
         \/ Value(get_probability(product)) >= LowProbability
    THEN value
    ELSE value + 1

(***************************************************************************)
(* The scheduler (external).  Of a pending request the model keeps what a  *)
(* callback can read back from response.meta (the page params) and the     *)
(* request's callback and page type; requests that agree on these are one  *)
(* kind, and a kind stays pending once scheduled.                          *)
(***************************************************************************)
Pending(request) ==
    [callback |-> request.callback,
     meta |-> IF "page_params" \in DOMAIN request.meta
              THEN [page_params |-> request.meta.page_params,
                    crawling_logs |->
                        [page_type |-> request.meta.crawling_logs.page_type]]
              ELSE [crawling_logs |->
                        [page_type |-> request.meta.crawling_logs.page_type],
                    allow_offsite |-> request.meta.allow_offsite]]

(***************************************************************************)
(* The inputs: what the extraction layer can inject into a callback.       *)
(***************************************************************************)
SeqsUpTo(S, n) == UNION {[1..k -> S] : k \in 0..n}

RECURSIVE Flatten(_)
Flatten(parts) ==
    IF parts = <<>> THEN <<>> ELSE Head(parts) \o Flatten(Tail(parts))

SHOES == <<"S", "h", "o", "e", "s">>
SPACE == <<" ">>

ProductNavigation(items, nextPage, subCategories) ==
    [items |-> items, nextPage |-> nextPage, subCategories |-> subCategories]

\* the crawl: navigation results of several links each, of few probabilities
CrawlProducts ==
    {Candidate(Some(SHOES), Metadata(Some(p))) : p \in {500, 8000}}
CrawlSubCategories ==
    {Candidate(Some(SHOES), None),
     Candidate(Some(HEURISTICS \o SPACE \o SHOES), Metadata(Some(8000)))}
CrawlNextPages == {None, Some(Candidate(None, Metadata(Some(8000))))}

\* an optional list: absent, or a list of up to n elements of S
OptSeqs(S, n) == {None} \cup {Some(s) : s \in SeqsUpTo(S, n)}

CrawlNavigations ==
    {ProductNavigation(items, nextPage, subCategories) :
        items \in OptSeqs(CrawlProducts, MaxProducts),
        nextPage \in CrawlNextPages,
        subCategories \in
            OptSeqs(CrawlSubCategories, MaxSubCategories) \ {Some(<<>>)}}

CrawlProductItems ==
    {Product(p) : p \in {None, Some(0), Some(999), Some(1000), Some(8000)}}

\* single calls: navigation results of one link per role, over a grid of
\* probabilities that holds every multiple of 0.01 (where int(100 * p)
\* steps), the value just below it and the value half way, and over the
\* labels made of up to MaxLabelParts parts
FineProbabilities == {p \in 0..PROB_DEN : p % 100 \in {0, 50, 99}}
FineMetadata ==
    {None, Metadata(None)} \cup {Metadata(Some(p)) : p \in FineProbabilities}
FineNames == {None, Some(SHOES), Some(HEURISTICS \o SPACE \o SHOES)}
LabelParts ==
    {HEURISTICS, <<"[", "h", "e", "u", "r">>,
     <<"i", "s", "t", "i", "c", "s", "]">>, SPACE, SHOES}
FineLabels ==
    {None} \cup {Some(Flatten(parts)) : parts \in SeqsUpTo(LabelParts, MaxLabelParts)}

SeedProduct == Candidate(Some(SHOES), Metadata(Some(8000)))
SeedNextPage == Candidate(None, None)
SeedSubCategory == Candidate(Some(SHOES), Metadata(Some(PROB_DEN)))

FineNavigations ==
    {ProductNavigation(Some(<<Candidate(n, m)>>), Some(SeedNextPage),
                       Some(<<SeedSubCategory>>)) :
        n \in {None, Some(SHOES)}, m \in FineMetadata}
    \cup
    {ProductNavigation(Some(<<SeedProduct>>), Some(Candidate(n, m)),
                       Some(<<Candidate(n, m)>>)) :
        n \in FineNames, m \in FineMetadata}
    \cup
    {ProductNavigation(None, None, Some(<<Candidate(n, m)>>)) :
        n \in FineLabels, m \in {None, Metadata(Some(8000))}}

FineProductItems ==
    {Product(None)} \cup {Product(Some(p)) : p \in 0..PROB_DEN}

\* the scheduler once the start request and a navigation response with a
\* product link and a next-page link have been handled
SeedFrontier(strategy) ==
    LET requests ==
            start_requests_output(strategy)
            \o parse_navigation_output(
                   strategy, start_requests_output(strategy)[1].meta,
                   ProductNavigation(Some(<<SeedProduct>>),
                                     Some(SeedNextPage), None))
    IN  {Pending(requests[i]) : i \in 1..Len(requests)}

(***************************************************************************)
(* The urls parameter (UrlsParam, UIFunkSpiderParams): validate_url_list,  *)
(* the "before" validator of the field.  The value it is given is None, a  *)
(* list of str or a str; the three are told apart by a type tag.           *)
(***************************************************************************)
PyNone == [type |-> "NoneType"]
PyStr(s) == [type |-> "str", chars |-> s]
PyList(l) == [type |-> "list", items |-> l]

\* not value
Falsy(value) ==
    \/ value.type = "NoneType"
    \/ value.type = "str" /\ value.chars = EmptyStr
    \/ value.type = "list" /\ value.items = <<>>

\* s.split("\n"): the pieces between the line feeds; never an empty list
RECURSIVE Split(_)
Split(s) ==
    IF \A i \in 1..Len(s) : s[i] # "\n" THEN <<s>>
    ELSE LET i == CHOOSE i \in 1..Len(s) :
                      s[i] = "\n" /\ \A j \in 1..(i - 1) : s[j] # "\n"
         IN  <<SubSeq(s, 1, i - 1)>> \o Split(SubSeq(s, i + 1, Len(s)))

HTTP == <<"h", "t", "t", "p", ":", "/", "/">>
HTTPS == <<"h", "t", "t", "p", "s", ":", "/", "/">>

\* re.search(_URL_PATTERN, v), with _URL_PATTERN of utils.py: an http or
\* https scheme followed by a host, and no white space anywhere
MatchesUrlPattern(v) ==
    /\ \E scheme \in {HTTP, HTTPS} :
          /\ Len(v) > Len(scheme)
          /\ SubSeq(v, 1, Len(scheme)) = scheme
          /\ v[Len(scheme) + 1] \notin {":", "/"}
    /\ \A i \in 1..Len(v) : v[i] \notin Whitespace

\* the loop of validate_url_list over the lines: the lines appended to
\* result and the lines warned about, each in the order of the loop
RECURSIVE validate_url_list_loop(_, _, _)
validate_url_list_loop(value, result, warned) ==
    IF value = <<>> THEN [result |-> result, warned |-> warned]
    ELSE LET v == Strip(Head(value))
         IN  IF v = EmptyStr
             THEN validate_url_list_loop(Tail(value), result, warned)
             ELSE IF ~MatchesUrlPattern(v)
             THEN validate_url_list_loop(Tail(value), result,
                                         Append(warned, v))
             ELSE validate_url_list_loop(Tail(value), Append(result, v),
                                         warned)

Returned(value, warned) ==
    [returned |-> Some(value), raised |-> None, warned |-> warned]
Raised(exception, warned) ==
    [returned |-> None, raised |-> Some(exception), warned |-> warned]

\* UrlsParam.validate_url_list / UIFunkSpiderParams.validate_url_list
validate_url_list(value) ==
    LET split == IF value.type = "str" THEN PyList(Split(value.chars))
                 ELSE value
    IN  IF Falsy(split) THEN Returned(split, <<>>)
        ELSE LET loop == validate_url_list_loop(split.items, <<>>, <<>>)
             IN  IF loop.result = <<>>
                 THEN Raised("ValueError", loop.warned)
                 ELSE Returned(PyList(loop.result), loop.warned)

\* the lines of the values given for urls
URL_A == HTTP \o <<"a">>
URL_B == HTTPS \o <<"b">>
UrlLines == {EmptyStr, SPACE, <<"x">>, URL_A, SPACE \o URL_B \o SPACE}

\* "\n".join(lines)
RECURSIVE Join(_)
Join(lines) ==
    IF Len(lines) = 1 THEN Head(lines)
    ELSE Head(lines) \o <<"\n">> \o Join(Tail(lines))

UrlsValues ==
    {PyNone}
        \cup {PyList(lines) : lines \in SeqsUpTo(UrlLines, MaxUrlLines)}
        \cup {PyStr(Join(lines)) :
                 lines \in SeqsUpTo(UrlLines, MaxUrlLines) \ {<<>>}}

\* in a crawl the spider is given its url argument and no urls
NoUrls ==
    /\ urls_value = PyNone
    /\ urls_outcome = None

NoGenerators == generators = <<>>

NoCalls ==
    /\ subcategory_link = None
    /\ call_page_params = None
    /\ calls = <<>>

OtherInit == NoUrls /\ NoGenerators /\ NoCalls

(***************************************************************************)
(* The actions.                                                            *)
(***************************************************************************)
Init ==
    /\ crawl_strategy \in EcommerceCrawlStrategy
    /\ engine = "opening"
    /\ frontier = {}
    /\ callback = "none"
    /\ response = None
    /\ injected = None
    /\ navigation = None
    /\ emitted = <<>>
    /\ yielded = <<>>
    /\ stats = 0
    /\ item_scraped_count = 0
    /\ nav_responses = 0
    /\ product_responses = 0
    /\ OtherInit

StartRequests ==
    /\ engine = "opening"
    /\ engine' = "output"
    /\ callback' = "start_requests"
    /\ emitted' = start_requests_output(crawl_strategy)
    /\ UNCHANGED <<crawl_strategy, frontier, response, injected, navigation,
                   yielded, stats, item_scraped_count, nav_responses,
                   product_responses>>
    /\ UNCHANGED other_vars

\* the engine takes the output of the callback that ran: requests go to the
\* scheduler, items are collected
HandleSpiderOutput ==
    /\ engine = "output"
    /\ engine' = "idle"
    /\ frontier' = frontier \cup {Pending(emitted[i]) : i \in 1..Len(emitted)}
    /\ item_scraped_count' = item_scraped_count + Len(yielded)
    /\ callback' = "none"
    /\ response' = None
    /\ injected' = None
    /\ navigation' = None
    /\ emitted' = <<>>
    /\ yielded' = <<>>
    /\ UNCHANGED <<crawl_strategy, stats, nav_responses, product_responses>>
    /\ UNCHANGED other_vars

\* the engine fetches a pending request and the extraction layer turns the
\* response into the item of the request's callback; the crawl ends when the
\* budget of requests (max_requests) is spent
Download(pending, item) ==
    /\ engine = "idle"
    /\ pending \in frontier
    /\ nav_responses + product_responses < MaxResponses
    /\ engine' = "response"
    /\ callback' = pending.callback
    /\ response' = Some(pending.meta)
    /\ injected' = Some(item)
    /\ navigation' = IF pending.callback = "parse_navigation"
                     THEN Some(item) ELSE None
    /\ UNCHANGED <<crawl_strategy, frontier, emitted, yielded, stats,
                   item_scraped_count, nav_responses, product_responses>>
    /\ UNCHANGED other_vars

DownloadNavigation ==
    \E pending \in frontier, nav \in CrawlNavigations :
        /\ pending.callback = "parse_navigation"
        /\ Download(pending, nav)

DownloadProduct ==
    \E pending \in frontier, product \in CrawlProductItems :
        /\ pending.callback = "parse_product"
        /\ Download(pending, product)

ParseNavigation ==
    /\ engine = "response"
    /\ callback = "parse_navigation"
    /\ engine' = "output"
    /\ emitted' = parse_navigation_output(
                      crawl_strategy, Value(response), Value(navigation))
    /\ navigation' =
           Some(parse_navigation_after(crawl_strategy, Value(navigation)))
    /\ yielded' = <<>>
    /\ nav_responses' = nav_responses + 1
    /\ UNCHANGED <<crawl_strategy, frontier, callback, response, injected,
                   stats, item_scraped_count, product_responses>>
    /\ UNCHANGED other_vars

ParseProduct ==
    /\ engine = "response"
    /\ callback = "parse_product"
    /\ engine' = "output"
    /\ emitted' = <<>>
    /\ yielded' = parse_product_output(Value(injected))
    /\ stats' = parse_product_stats(stats, Value(injected))
    /\ product_responses' = product_responses + 1
    /\ UNCHANGED <<crawl_strategy, frontier, callback, response, injected,
                   navigation, item_scraped_count, nav_responses>>
    /\ UNCHANGED other_vars

Next ==
    \/ StartRequests
    \/ HandleSpiderOutput
    \/ DownloadNavigation
    \/ DownloadProduct
    \/ ParseNavigation
    \/ ParseProduct

Spec == Init /\ [][Next]_vars

(***************************************************************************)
(* Single calls of the callbacks: a response has been delivered, with an   *)
(* item drawn from the fine inputs, and the callback runs on it.           *)
(***************************************************************************)
InitFine ==
    /\ crawl_strategy \in EcommerceCrawlStrategy
    /\ engine = "response"
    /\ frontier = SeedFrontier(crawl_strategy)
    /\ \E pending \in SeedFrontier(crawl_strategy) :
          /\ callback = pending.callback
          /\ response = Some(pending.meta)
          /\ IF pending.callback = "parse_navigation"
             THEN /\ injected \in {Some(nav) : nav \in FineNavigations}
                  /\ navigation = injected
             ELSE /\ injected \in {Some(product) : product \in FineProductItems}
                  /\ navigation = None
    /\ emitted = <<>>
    /\ yielded = <<>>
    /\ stats = 0
    /\ item_scraped_count = 0
    /\ nav_responses = 1
    /\ product_responses = 0
    /\ OtherInit

NextFine ==
    \/ ParseNavigation
    \/ ParseProduct
    \/ HandleSpiderOutput

SpecFine == InitFine /\ [][NextFine]_vars

(***************************************************************************)
(* The validation of the urls parameter, when the spider's parameters are  *)
(* built: no crawl has started.                                            *)
(***************************************************************************)
NotCrawling ==
    /\ crawl_strategy = Full
    /\ engine = "opening"
    /\ frontier = {}
    /\ callback = "none"
    /\ response = None
    /\ injected = None
    /\ navigation = None
    /\ emitted = <<>>
    /\ yielded = <<>>
    /\ stats = 0
    /\ item_scraped_count = 0
    /\ nav_responses = 0
    /\ product_responses = 0

InitUrls ==
    /\ NotCrawling
    /\ urls_value \in UrlsValues
    /\ urls_outcome = None
    /\ NoGenerators
    /\ NoCalls

ValidateUrlList ==
    /\ urls_outcome = None
    /\ urls_outcome' = Some(validate_url_list(urls_value))
    /\ UNCHANGED <<crawl_vars, urls_value, generators, call_vars>>

NextUrls == ValidateUrlList

SpecUrls == InitUrls /\ [][NextUrls]_vars

(***************************************************************************)
(* Product responses handled side by side.  The engine delivers a product  *)
(* response by calling parse_product, which gives it a generator, and it   *)
(* runs the generators of the responses it has in turn, one step at a      *)
(* time, in any order.  A step runs the body of parse_product up to its    *)
(* next yield or to its end; the callbacks run in the one thread of the    *)
(* engine, so a step is not interrupted.                                   *)
(***************************************************************************)
InitConcurrent ==
    /\ crawl_strategy = Full
    /\ engine = "idle"
    /\ frontier = SeedFrontier(crawl_strategy)
    /\ callback = "none"
    /\ response = None
    /\ injected = None
    /\ navigation = None
    /\ emitted = <<>>
    /\ yielded = <<>>
    /\ stats = 0
    /\ item_scraped_count = 0
    /\ nav_responses = 1
    /\ product_responses = 0
    /\ NoUrls
    /\ NoGenerators
    /\ NoCalls

\* a product response is delivered: parse_product(response, product) is
\* called and returns a generator that has not run yet
DeliverProduct ==
    \E pending \in frontier, product \in CrawlProductItems :
        /\ pending.callback = "parse_product"
        /\ Len(generators) < MaxConcurrent
        /\ generators' =
               Append(generators, [product |-> product, pc |-> "start"])
        /\ UNCHANGED <<crawl_vars, urls_vars, call_vars>>

\* the first step of a generator: the body of parse_product runs; it either
\* yields the product, which the engine collects, and waits at the yield, or
\* counts the drop and ends
StartParseProduct ==
    \E i \in 1..Len(generators) :
        /\ generators[i].pc = "start"
        /\ stats' = parse_product_stats(stats, generators[i].product)
        /\ item_scraped_count' =
               item_scraped_count
                   + Len(parse_product_output(generators[i].product))
        /\ generators' =
               [generators EXCEPT ![i].pc =
                    IF parse_product_output(generators[i].product) # <<>>
                    THEN "yield" ELSE "done"]
        /\ product_responses' = product_responses + 1
        /\ UNCHANGED <<crawl_strategy, engine, frontier, callback, response,
                       injected, navigation, emitted, yielded, nav_responses,
                       urls_vars, call_vars>>

\* the step after the yield: the body ends
FinishParseProduct ==
    \E i \in 1..Len(generators) :
        /\ generators[i].pc = "yield"
        /\ generators' = [generators EXCEPT ![i].pc = "done"]
        /\ UNCHANGED <<crawl_vars, urls_vars, call_vars>>

NextConcurrent ==
    \/ DeliverProduct
    \/ StartParseProduct
    \/ FinishParseProduct

SpecConcurrent == InitConcurrent /\ [][NextConcurrent]_vars

(***************************************************************************)
(* Calls of get_subcategory_request, one after the other, on one           *)
(* subcategory link and with one page_params argument.  The link is an     *)
(* object: what a call does to it is what the next call finds.             *)
(***************************************************************************)
CallMetadata == {None, Metadata(None), Metadata(Some(8000))}
CallPageParams == {None, Some(EmptyParams), Some(FullDomainParams)}

InitCalls ==
    /\ NotCrawling
    /\ NoUrls
    /\ NoGenerators
    /\ subcategory_link \in
           {Some(Candidate(name, metadata)) :
                name \in FineLabels, metadata \in CallMetadata}
    /\ call_page_params \in CallPageParams
    /\ calls = <<>>

\* a variant in which the call works on a copy of the link
GetSubcategoryRequestOnCopy ==
    /\ Len(calls) < MaxCalls
    /\ calls' =
           Append(calls,
                  [request |-> Value(subcategory_link),
                   returned |-> get_subcategory_request(
                                    Value(subcategory_link), None,
                                    call_page_params, None)])
    /\ UNCHANGED <<crawl_vars, urls_vars, generators, subcategory_link,
                   call_page_params>>

\* self.get_subcategory_request(request, page_params=page_params)
GetSubcategoryRequest ==
    /\ Len(calls) < MaxCalls
    /\ calls' =
           Append(calls,
                  [request |-> Value(subcategory_link),
                   returned |-> get_subcategory_request(
                                    Value(subcategory_link), None,
                                    call_page_params, None)])
    /\ subcategory_link' = Some(subcategory_after(Value(subcategory_link)))
    /\ UNCHANGED <<crawl_vars, urls_vars, generators, call_page_params>>

NextCalls == GetSubcategoryRequest

SpecCalls == InitCalls /\ [][NextCalls]_vars

(***************************************************************************)
(* The properties.                                                         *)
(***************************************************************************)
PageType(request) == request.meta.crawling_logs.page_type
SubcategoryTypes == {"subCategories", "productNavigation-heuristics"}

\* parse_navigation has run and its output is in emitted
AfterParseNavigation == engine = "output" /\ callback = "parse_navigation"
\* parse_product has run and its output is in yielded
AfterParseProduct == engine = "output" /\ callback = "parse_product"

\* the navigation result as it was injected, and its links
InjectedProducts == ProductsOf(Value(injected))
InjectedSubCategories == SubCategoriesOf(Value(injected))
HasNextPage == Value(injected).nextPage # None

\* the positions in emitted of the requests with a page type among types
Positions(types) == {i \in 1..Len(emitted) : PageType(emitted[i]) \in types}

C2_NoNextPageWithoutProducts ==
    (AfterParseNavigation /\ InjectedProducts = <<>> /\ HasNextPage) =>
        Positions({"nextPage"}) = {}

\* C2, its case: a page with a next-page link, subcategory links and no
\* product, handled with requests emitted
C2_Witness ==
    /\ AfterParseNavigation
    /\ InjectedProducts = <<>>
    /\ HasNextPage
    /\ emitted # <<>>
    /\ Positions({"nextPage"}) = {}

\* C3: under pagination_only no request with page type subCategories or
\* productNavigation-heuristics is emitted or scheduled, whatever subcategory
\* links the navigation results hold; under full and navigation
\* parse_navigation emits one such request per subcategory link.
C3_SubcategoriesByStrategy ==
    /\ AfterParseNavigation =>
           Cardinality(Positions(SubcategoryTypes)) =
               IF crawl_strategy = PaginationOnly THEN 0
               ELSE Len(InjectedSubCategories)
    /\ crawl_strategy = PaginationOnly =>
           \A pending \in frontier :
               pending.meta.crawling_logs.page_type \notin SubcategoryTypes

\* C3, its case: under pagination_only, the second navigation response
\* holds two subcategory links and none of them is followed
C3_Witness ==
    /\ crawl_strategy = PaginationOnly
    /\ AfterParseNavigation
    /\ nav_responses = 2
    /\ Len(InjectedSubCategories) = 2
    /\ emitted # <<>>
    /\ Positions(SubcategoryTypes) = {}

\* the probability of the product that was injected, None when unknown
InjectedProbability == Value(Value(injected).metadata).probability

\* C4: parse_product yields a product if and only if its probability is
\* unknown or at least 0.1 (0.1 is accepted, 0.0999 is dropped); a drop
\* adds exactly 1 to drop_item/product/low_probability and yields nothing,
\* an acceptance yields the product and leaves the counter as it was; in
\* both cases no request is emitted.
C4_AcceptIffUnknownOrAtLeastTenth ==
    [][(engine = "response" /\ callback = "parse_product"
            /\ engine' = "output") =>
        /\ emitted' = <<>>
        /\ IF InjectedProbability = None
                \/ 10 * Value(InjectedProbability) >= PROB_DEN
           THEN yielded' = <<Value(injected)>> /\ stats' = stats
           ELSE yielded' = <<>> /\ stats' = stats + 1]_vars

\* C4, its case: a product of probability 0.0999 has been dropped and
\* counted once
C4_Witness ==
    /\ AfterParseProduct
    /\ InjectedProbability = Some(999)
    /\ yielded = <<>>
    /\ stats = 1

\* floor(100 * p) = k, for the probability p / PROB_DEN
IsFloorOf100Times(k, p) ==
    k * PROB_DEN <= 100 * p /\ 100 * p < (k + 1) * PROB_DEN

\* the probability of a link candidate, None when unknown
ProbabilityOf(candidate) ==
    IF candidate.metadata = None THEN None
    ELSE Value(candidate.metadata).probability

\* C5: the request of a product candidate of probability p in [0, 1] has
\* priority floor(100 * p) + 100, which does not decrease as p grows; a
\* candidate of unknown probability gets priority 100, as for p = 0.
C5_ProductPriority ==
    AfterParseNavigation =>
        \A i \in 1..Len(InjectedProducts) :
            LET p == ProbabilityOf(InjectedProducts[i])
                priority == emitted[i].priority
            IN  /\ PageType(emitted[i]) = "product"
                /\ p = None => priority = 100
                /\ p # None =>
                       /\ IsFloorOf100Times(priority - 100, Value(p))
                       /\ \A q \in FineProbabilities :
                              q >= Value(p) =>
                                  get_parse_product_request_priority(
                                      Candidate(None, Metadata(Some(q))))
                                      >= priority

\* C5, its case: a product candidate of probability 0.2999 gets priority 129
C5_Witness ==
    /\ AfterParseNavigation
    /\ Len(InjectedProducts) = 1
    /\ ProbabilityOf(InjectedProducts[1]) = Some(2999)
    /\ emitted[1].priority = 129

\* C6: every nextPage request has priority exactly 100, whatever the
\* probability or name of the candidate; the priority derived from the
\* probability is never used for it.
C6_NextPagePriority ==
    AfterParseNavigation =>
        /\ \A i \in Positions({"nextPage"}) : emitted[i].priority = 100
        /\ (HasNextPage /\ InjectedProducts # <<>>) =>
               /\ PageType(emitted[Len(InjectedProducts) + 1]) = "nextPage"
               /\ emitted[Len(InjectedProducts) + 1].meta.crawling_logs.probability
                      = ProbabilityOf(Value(Value(injected).nextPage))

\* C6, its case: a next-page candidate named "[heuristics] Shoes" of
\* probability 0.5, whose derived priority would be 50
C6_Witness ==
    /\ AfterParseNavigation
    /\ HasNextPage
    /\ Value(Value(injected).nextPage) =
           Candidate(Some(HEURISTICS \o SPACE \o SHOES), Metadata(Some(5000)))
    /\ \E i \in Positions({"nextPage"}) : emitted[i].priority = 100

\* 1 when parse_navigation follows the next-page link, else 0
NextPageFollowed == IF HasNextPage /\ InjectedProducts # <<>> THEN 1 ELSE 0

\* the priorities of the requests in emitted, in order
Priorities == [i \in 1..Len(emitted) |-> emitted[i].priority]

\* C7: probability gating happens on the product response.  Under strategy
\* navigation, for a navigation result with products, parse_navigation emits
\* one product request per product candidate whatever its probability
\* (priority floor(100 * p) + 100), then one nextPage request (priority 100)
\* if there is a next-page link, then one subcategory request per
\* subcategory link (priority floor(100 * p), 0 when unknown); it yields no
\* item and counts no drop: every drop and every item comes from a product
\* response handled by parse_product.
C7_GatingOnProductResponse ==
    /\ (AfterParseNavigation /\ crawl_strategy = Navigation
            /\ InjectedProducts # <<>>) =>
        LET np == Len(InjectedProducts)
            nn == IF HasNextPage THEN 1 ELSE 0
            ns == Len(InjectedSubCategories)
        IN  /\ Len(emitted) = np + nn + ns
            /\ \A i \in 1..np :
                   LET p == ProbabilityOf(InjectedProducts[i])
                   IN  /\ PageType(emitted[i]) = "product"
                       /\ emitted[i].callback = "parse_product"
                       /\ emitted[i].meta.crawling_logs.probability = p
                       /\ IsFloorOf100Times(emitted[i].priority - 100,
                              IF p = None THEN 0 ELSE Value(p))
            /\ nn = 1 =>
                   /\ PageType(emitted[np + 1]) = "nextPage"
                   /\ emitted[np + 1].priority = 100
            /\ \A j \in 1..ns :
                   LET p == ProbabilityOf(InjectedSubCategories[j])
                       request == emitted[np + nn + j]
                   IN  /\ PageType(request) \in SubcategoryTypes
                       /\ request.callback = "parse_navigation"
                       /\ IF p = None THEN request.priority = 0
                          ELSE IsFloorOf100Times(request.priority, Value(p))
    /\ AfterParseNavigation => yielded = <<>>
    /\ stats + item_scraped_count + Len(yielded) = product_responses

\* C7, its case: products of probability 0.8 and 0.05, a next-page link and
\* a plain subcategory link of unknown probability, under navigation, give
\* four requests of priorities 180, 105, 100 and 0
C7_Witness ==
    /\ AfterParseNavigation
    /\ crawl_strategy = Navigation
    /\ Len(InjectedProducts) = 2
    /\ ProbabilityOf(InjectedProducts[1]) = Some(8000)
    /\ ProbabilityOf(InjectedProducts[2]) = Some(500)
    /\ HasNextPage
    /\ InjectedSubCategories = <<Candidate(Some(SHOES), None)>>
    /\ Priorities = <<180, 105, 100, 0>>
    /\ [i \in 1..4 |-> PageType(emitted[i])]
           = <<"product", "product", "nextPage", "subCategories">>
    /\ stats = 0

\* the label of a candidate, "" when it has none
LabelOf(candidate) ==
    IF candidate.name = None THEN EmptyStr ELSE Value(candidate.name)

\* s neither starts nor ends with whitespace
IsStripped(s) ==
    s = <<>> \/ (s[1] \notin Whitespace /\ s[Len(s)] \notin Whitespace)

\* C8: get_subcategory_request tags a subcategory candidate
\* productNavigation-heuristics if and only if its label contains
\* "[heuristics]"; the request then carries the label with the occurrences
\* of the marker deleted and the whitespace around the rest stripped
\* ("[heuristics] Shoes" becomes "Shoes").  Every other candidate is tagged
\* subCategories and its request carries its label (the empty label when the
\* candidate has none).
C8_HeuristicsTagAndLabel ==
    (AfterParseNavigation /\ crawl_strategy # PaginationOnly) =>
        \A j \in 1..Len(InjectedSubCategories) :
            LET candidate == InjectedSubCategories[j]
                label == LabelOf(candidate)
                request == emitted[Len(InjectedProducts) + NextPageFollowed + j]
                carried == request.meta.crawling_logs.name
            IN  /\ PageType(request) \in SubcategoryTypes
                /\ PageType(request) = "productNavigation-heuristics"
                       <=> Contains(label, HEURISTICS)
                /\ Contains(label, HEURISTICS) =>
                       /\ carried = Strip(Replace(label, HEURISTICS))
                       /\ IsStripped(carried)
                       /\ Len(carried) <= Len(label) - Len(HEURISTICS)
                       /\ label = HEURISTICS \o SPACE \o SHOES
                              => carried = SHOES
                /\ ~Contains(label, HEURISTICS) => carried = label

\* C8, its case: the candidate labelled "[heuristics] Shoes" is tagged
\* productNavigation-heuristics and its request carries "Shoes"
C8_Witness ==
    /\ AfterParseNavigation
    /\ Len(InjectedSubCategories) = 1
    /\ InjectedProducts = <<>>
    /\ InjectedSubCategories[1].name = Some(HEURISTICS \o SPACE \o SHOES)
    /\ PageType(emitted[1]) = "productNavigation-heuristics"
    /\ emitted[1].meta.crawling_logs.name = SHOES

\* C9 as stated: in the requests emitted for one navigation result, the
\* priority of the nextPage request is strictly greater than the priority
\* of every subcategory request, for every subcategory probability in
\* [0, 1] or unknown.
C9_NextPageStrictlyAboveSubcategories ==
    AfterParseNavigation =>
        \A i \in Positions({"nextPage"}), j \in Positions(SubcategoryTypes) :
            emitted[i].priority > emitted[j].priority

\* C9 as amended: the priority of the nextPage request is never lower than
\* the priority of a subcategory request of the same batch, and it is
\* strictly greater unless the probability of the subcategory link is 1,
\* which gives the subcategory request the priority 100 of the nextPage
\* request.
C9_NextPageNotBelowSubcategories ==
    AfterParseNavigation =>
        \A i \in Positions({"nextPage"}), j \in Positions(SubcategoryTypes) :
            /\ emitted[i].priority >= emitted[j].priority
            /\ emitted[i].priority = emitted[j].priority
                   <=> emitted[j].meta.crawling_logs.probability
                           = Some(PROB_DEN)

\* C9, its case: a batch with a nextPage request and the request of a
\* subcategory link of probability 0.9999, of priority 99
C9_Witness ==
    /\ AfterParseNavigation
    /\ \E i \in Positions({"nextPage"}), j \in Positions(SubcategoryTypes) :
           /\ emitted[j].meta.crawling_logs.probability = Some(9999)
           /\ emitted[j].priority = 99
           /\ emitted[i].priority = 100

\* C10 as stated: the priority of every product request is strictly greater
\* than the priority of any nextPage request and of any subcategory request,
\* for every product and subcategory probability in [0, 1] or unknown.
C10_ProductStrictlyAboveNavigation ==
    AfterParseNavigation =>
        \A i \in Positions({"product"}),
           j \in Positions({"nextPage"} \cup SubcategoryTypes) :
            emitted[i].priority > emitted[j].priority

\* C10 as amended: the priority of a product request is at least 100 and
\* the priority of a nextPage or subcategory request is at most 100, so a
\* product request is never ranked below one of them; it is strictly above
\* all of them when the probability of the product is known and at least
\* 0.01, and has priority exactly 100 otherwise, the priority of every
\* nextPage request and of a subcategory request of probability 1.
C10_ProductNotBelowNavigation ==
    AfterParseNavigation =>
        /\ \A i \in Positions({"product"}) :
               LET p == emitted[i].meta.crawling_logs.probability
               IN  IF p # None /\ 100 * Value(p) >= PROB_DEN
                   THEN emitted[i].priority > 100
                   ELSE emitted[i].priority = 100
        /\ \A j \in Positions({"nextPage"} \cup SubcategoryTypes) :
               emitted[j].priority <= 100
        /\ \A i \in Positions({"product"}),
              j \in Positions({"nextPage"} \cup SubcategoryTypes) :
               emitted[i].priority >= emitted[j].priority

\* C10, its case: a product of probability 0.01, of priority 101, in a batch
\* with a nextPage request and a subcategory request of priority 100
C10_Witness ==
    /\ AfterParseNavigation
    /\ \E i \in Positions({"product"}), j \in Positions({"nextPage"}),
          k \in Positions(SubcategoryTypes) :
           /\ emitted[i].meta.crawling_logs.probability = Some(100)
           /\ emitted[i].priority = 101
           /\ emitted[j].priority = 100
           /\ emitted[k].priority = 100

(***************************************************************************)
(* C11.  The offsite restriction is lifted for product requests only.      *)
(***************************************************************************)
NavigationTypes ==
    {"productNavigation", "nextPage", "subCategories",
     "productNavigation-heuristics"}

AllowsOffsite(meta) == "allow_offsite" \in DOMAIN meta /\ meta.allow_offsite

\* C11: every request a callback emits with the product tag (those of
\* get_parse_product_request) has allow_offsite set to true in its meta, and
\* no request with one of the four navigation tags (those of start_requests,
\* get_nextpage_request and get_subcategory_request) has the allow_offsite
\* key at all; the same holds of the requests the scheduler holds
C11_OffsiteOnlyForProducts ==
    /\ \A i \in 1..Len(emitted) :
          /\ PageType(emitted[i]) \in NavigationTypes \cup {"product"}
          /\ PageType(emitted[i]) = "product" =>
                 /\ emitted[i].callback = "parse_product"
                 /\ AllowsOffsite(emitted[i].meta)
          /\ PageType(emitted[i]) \in NavigationTypes =>
                 /\ emitted[i].callback = "parse_navigation"
                 /\ "allow_offsite" \notin DOMAIN emitted[i].meta
    /\ \A pending \in frontier :
          IF pending.meta.crawling_logs.page_type = "product"
          THEN AllowsOffsite(pending.meta)
          ELSE "allow_offsite" \notin DOMAIN pending.meta

\* parse_navigation has emitted requests of all four roles of a navigation
\* page (product, next page, subcategory, heuristic subcategory) while the
\* request of start_requests is with the scheduler
C11_Witness ==
    /\ AfterParseNavigation
    /\ {PageType(emitted[i]) : i \in 1..Len(emitted)} =
           {"product", "nextPage", "subCategories",
            "productNavigation-heuristics"}
    /\ \E pending \in frontier :
           pending.meta.crawling_logs.page_type = "productNavigation"

(***************************************************************************)
(* C12.  What validate_url_list does with the value given for urls.        *)
(***************************************************************************)
\* the lines of a value: those of a str are separated by line feeds
LinesOf(value) ==
    IF value.type = "str" THEN Split(value.chars)
    ELSE IF value.type = "list" THEN value.items
    ELSE <<>>

IsBlank(line) == \A i \in 1..Len(line) : line[i] \in Whitespace
IsValidUrlLine(line) == ~IsBlank(line) /\ MatchesUrlPattern(Strip(line))
IsInvalidUrlLine(line) == ~IsBlank(line) /\ ~MatchesUrlPattern(Strip(line))

\* the lines at the positions idx, stripped, in their original order
RECURSIVE StrippedAt(_, _)
StrippedAt(lines, idx) ==
    IF idx = {} THEN <<>>
    ELSE LET i == CHOOSE i \in idx : \A j \in idx : i <= j
         IN  <<Strip(lines[i])>> \o StrippedAt(lines, idx \ {i})

ValidUrlLines(value) ==
    StrippedAt(LinesOf(value),
               {i \in 1..Len(LinesOf(value)) :
                    IsValidUrlLine(LinesOf(value)[i])})
InvalidUrlLines(value) ==
    StrippedAt(LinesOf(value),
               {i \in 1..Len(LinesOf(value)) :
                    IsInvalidUrlLine(LinesOf(value)[i])})

\* what the validator does with a value that is not one of the empty ones:
\* it raises ValueError exactly when no line is a valid URL, otherwise it
\* returns the valid lines in their order, and it warns about each line
\* that is neither blank nor a valid URL
FiltersUrlLines(value, outcome) ==
    /\ outcome.raised = Some("ValueError") <=> ValidUrlLines(value) = <<>>
    /\ outcome.raised = None =>
           outcome.returned = Some(PyList(ValidUrlLines(value)))
    /\ outcome.raised # None => outcome.returned = None
    /\ outcome.warned = InvalidUrlLines(value)

PassesThrough(value, outcome) ==
    /\ outcome.raised = None
    /\ outcome.returned = Some(value)
    /\ outcome.warned = <<>>

\* C12: validate_url_list ignores blank lines, drops the lines that are not
\* URLs with a warning and keeps the valid ones in their order, raises
\* ValueError exactly when the parameter is not empty and no valid URL is
\* found, and returns an empty parameter (None, the empty list or the empty
\* string) as it is, without failing
C12_EmptyParameterPassesThrough ==
    urls_outcome # None =>
        IF urls_value \in {PyNone, PyList(<<>>), PyStr(EmptyStr)}
        THEN PassesThrough(urls_value, Value(urls_outcome))
        ELSE FiltersUrlLines(urls_value, Value(urls_outcome))

\* C12, but for the empty string: the same statement with None and the
\* empty list as the only empty parameters, the empty string being a
\* parameter of one blank line
C12_ButForTheEmptyString ==
    urls_outcome # None =>
        IF urls_value \in {PyNone, PyList(<<>>)}
        THEN PassesThrough(urls_value, Value(urls_outcome))
        ELSE FiltersUrlLines(urls_value, Value(urls_outcome))

\* a value of three lines, one blank, one not a URL and one a URL written
\* with white space around it, has been validated
C12_Witness ==
    /\ urls_outcome # None
    /\ urls_value = PyStr(Join(<<SPACE, <<"x">>, SPACE \o URL_B \o SPACE>>))
    /\ Value(urls_outcome).returned = Some(PyList(<<URL_B>>))
    /\ Value(urls_outcome).warned = << <<"x">> >>

(***************************************************************************)
(* C13.  Product responses handled side by side.                           *)
(***************************************************************************)
\* the product responses whose handling has begun
Started == {i \in 1..Len(generators) : generators[i].pc # "start"}

\* the probability of the product of a response is known and below 0.1
IsLowProbability(product) ==
    /\ product.metadata # None
    /\ Value(product.metadata).probability # None
    /\ 10 * Value(Value(product.metadata).probability) < PROB_DEN

StartedLow == {i \in Started : IsLowProbability(generators[i].product)}

\* C13: however the handling of the product responses is interleaved, the
\* drop counter equals the number of handled responses whose probability is
\* known and below 0.1, the number of items collected equals the number of
\* the other handled responses, the counter never decreases, and no step
\* emits a request or changes what the scheduler holds
C13_DropsAndItemsAddUp ==
    /\ [](/\ stats = Cardinality(StartedLow)
          /\ item_scraped_count = Cardinality(Started \ StartedLow)
          /\ product_responses = Cardinality(Started)
          /\ emitted = <<>>)
    /\ [][stats' >= stats /\ frontier' = frontier]_vars

\* three product responses side by side: the generator of the first, a
\* product that is kept, still waits at its yield when the two others, both
\* of low probability, have been counted
C13_Witness ==
    /\ Len(generators) = 3
    /\ generators[1].pc = "yield"
    /\ generators[2].pc = "done" /\ IsLowProbability(generators[2].product)
    /\ generators[3].pc = "done" /\ IsLowProbability(generators[3].product)
    /\ stats = 2
    /\ item_scraped_count = 1

(***************************************************************************)
(* C14.  get_subcategory_request called again on the same link.            *)
(***************************************************************************)
\* page_params or {}
GivenPageParams ==
    IF call_page_params = None THEN EmptyParams ELSE Value(call_page_params)

\* the label of the link when call k was made
CallLabel(k) == LabelOf(calls[k].request)

\* call k found the marker in the label: its request is tagged as heuristic
\* and carries the given page params
IsHeuristicsCall(k) ==
    /\ PageType(calls[k].returned) = "productNavigation-heuristics"
    /\ calls[k].returned.meta.page_params = GivenPageParams

\* call k did not find the marker: its request is tagged subCategories and
\* carries empty page params
IsPlainCall(k) ==
    /\ PageType(calls[k].returned) = "subCategories"
    /\ calls[k].returned.meta.page_params = EmptyParams

\* C14 as claimed: after a first call on a link whose label contains the
\* marker, the label of the link no longer contains it, so the second call
\* with the same page params emits a subCategories request with empty page
\* params where the first emitted a heuristics request with the given page
\* params, and the two requests have the same priority
C14_SecondCallFindsNoMarker ==
    (Len(calls) >= 2 /\ Contains(CallLabel(1), HEURISTICS)) =>
        /\ ~Contains(CallLabel(2), HEURISTICS)
        /\ IsHeuristicsCall(1)
        /\ IsPlainCall(2)
        /\ calls[2].returned.priority = calls[1].returned.priority

\* C14, amended: a call on a link whose label contains the marker leaves the
\* link, not only the request, with the label that has the occurrences of
\* the marker deleted in one pass and the whitespace around the rest
\* stripped.  The call emits a heuristics request with the given page
\* params; the next call on the same link emits a subCategories request
\* with empty page params if that new label is free of the marker, and
\* again a heuristics request with the given page params if the deletion
\* has joined the pieces of another marker ("[heur[heuristics]istics]").
\* The priority is the same in all calls.
C14_NextCallReadsTheRenamedLink ==
    \A k \in 1..(Len(calls) - 1) :
        /\ calls[k + 1].returned.priority = calls[k].returned.priority
        /\ Contains(CallLabel(k), HEURISTICS) =>
              /\ IsHeuristicsCall(k)
              /\ CallLabel(k + 1) = Strip(Replace(CallLabel(k), HEURISTICS))
              /\ calls[k].returned.meta.crawling_logs.name = CallLabel(k + 1)
              /\ IF Contains(CallLabel(k + 1), HEURISTICS)
                 THEN IsHeuristicsCall(k + 1)
                 ELSE IsPlainCall(k + 1)

\* two calls on the link labelled "[heuristics] Shoes" with the full-domain
\* page params: the first emitted a heuristics request with these params,
\* the second found the label "Shoes" and emitted a subCategories request
\* with empty page params
C14_Witness ==
    /\ Len(calls) >= 2
    /\ call_page_params = Some(FullDomainParams)
    /\ CallLabel(1) = HEURISTICS \o SPACE \o SHOES
    /\ CallLabel(2) = SHOES
    /\ IsHeuristicsCall(1)
    /\ IsPlainCall(2)
    /\ calls[1].returned.meta.page_params = FullDomainParams
    /\ calls[1].returned.priority = 80

====
